---- MODULE Spec2Model ----
(***************************************************************************)
(* Model of the ESP32 BSP button module (src/Button/Button.c):             *)
(* module lifecycle with the validation and sorting of the descriptor      *)
(* table, per-button registration, the GPIO edge ISR generic_button_CB     *)
(* and the FreeRTOS debounce timer callback timer_CB.                      *)
(* The FreeRTOS one-shot timer is modelled by its status: "dormant" (not   *)
(* in the active list), "queued" (a start command waits in the timer       *)
(* queue, xTimerIsTimerActive still pdFALSE), "active" (running).          *)
(* GPIO interrupts are per pin: a pin has at most one ISR argument (the    *)
(* last gpio_isr_handler_add wins) and an enable flag. Pin levels are      *)
(* driven by the environment.                                              *)
(***************************************************************************)
EXTENDS Integers, FiniteSets, TLC

\* Number of buttons declared in Button_physical_connection.h
NUM_OF_BUTTONS == 2
\* Cap on the press counter so that the state space is finite
MaxPresses == 2

\* Button_ID values of the closed enumeration
Buttons == 0 .. (NUM_OF_BUTTONS - 1)
\* Identifiers passed by callers, including values outside the enumeration
AllIDs == 0 .. NUM_OF_BUTTONS

\* Button_state values (GPIO levels cast to Button_state)
BUTTON_IS_NOT_PRESSED == 0
BUTTON_IS_PRESSED == 1
Levels == {0, 1}

\* GPIOs of the two buttons declared in BUTTONS_CONFIGURATIONS
GPIO_B0 == 2
GPIO_B1 == 4
\* GPIO numbers a descriptor can hold: the declared ones and 0, the GPIO of
\* a zero-filled system_button_info
GPIOs == {0, GPIO_B0, GPIO_B1}

\* GPIO_IS_VALID_GPIO on the ESP32
GPIO_IS_VALID_GPIO(g) == g \in (0 .. 19) \cup (21 .. 23) \cup (25 .. 27) \cup (32 .. 39)

\* gpio_int_type_t value GPIO_INTR_DISABLE
GPIO_INTR_DISABLE == 0
\* Interruption types of the two buttons declared in BUTTONS_CONFIGURATIONS
\* (an edge type, not GPIO_INTR_DISABLE)
INTR_B0 == 1
INTR_B1 == 1

\* Descriptor part of system_button_info (ID, GPIO, interruption_type)
DeclaredDescriptor(b) ==
  [ID |-> b, GPIO |-> IF b = 0 THEN GPIO_B0 ELSE GPIO_B1,
   interruption_type |-> IF b = 0 THEN INTR_B0 ELSE INTR_B1]
\* buttons_info = {0u}: a zero-filled entry
ZeroDescriptor == [ID |-> 0, GPIO |-> 0, interruption_type |-> 0]

\* The pin interrupt can fire after gpio_set_intr_type(GPIO, type)
IntrTypeEnables(type) == type # GPIO_INTR_DISABLE

\* BUTTONS_CONFIGURATIONS may list the buttons in any order
Configs == {[i \in Buttons |-> DeclaredDescriptor(p[i])] :
              p \in {q \in [Buttons -> Buttons] : \A i, j \in Buttons : i # j => q[i] # q[j]}}

\* No ISR argument installed on a pin
NoArg == -1

VARIABLES
  button_module_was_initialized,
  table,
  was_initialized,
  state,
  debounce_timer_expired,
  num_of_presses,
  timer,
  isr_arg,
  intr_enabled,
  level,
  cb_calls,
  registered_once,
  deregistered,
  last

core == <<was_initialized, state, debounce_timer_expired, num_of_presses,
          timer, cb_calls>>
vars == <<button_module_was_initialized, table, was_initialized, state,
          debounce_timer_expired, num_of_presses, timer, isr_arg,
          intr_enabled, level, cb_calls, registered_once, deregistered, last>>

Rec(op, id, ret, val) == [op |-> op, id |-> id, ret |-> ret, val |-> val]

\* check_button_ID: the switch over BUTTONS
check_button_ID(ID) == ID \in Buttons

Init ==
  /\ button_module_was_initialized = FALSE
  /\ table \in Configs
  /\ was_initialized = [b \in Buttons |-> FALSE]
  /\ state = [b \in Buttons |-> BUTTON_IS_NOT_PRESSED]
  /\ debounce_timer_expired = [b \in Buttons |-> FALSE]
  /\ num_of_presses = [b \in Buttons |-> 0]
  /\ timer = [b \in Buttons |-> "dormant"]
  /\ isr_arg = [g \in GPIOs |-> NoArg]
  /\ intr_enabled = [g \in GPIOs |-> FALSE]
  /\ level \in [GPIOs -> Levels]
  /\ cb_calls = [b \in Buttons |-> 0]
  /\ registered_once = [b \in Buttons |-> FALSE]
  /\ deregistered = [b \in Buttons |-> FALSE]
  /\ last = Rec("none", 0, "none", 0)

\* First loop of check_configurations_sort_and_init: validation of every
\* entry (the pull mode is not modelled; the declared ones are valid)
ConfigValid(tbl) ==
  \A i \in Buttons : check_button_ID(tbl[i].ID) /\ GPIO_IS_VALID_GPIO(tbl[i].GPIO)

\* First loop: buttons_info[tbl[i].ID] = tbl[i], in index order, into a
\* zero-filled buffer
RECURSIVE SortInto(_, _, _)
SortInto(tbl, i, buf) ==
  IF i = NUM_OF_BUTTONS THEN buf
  ELSE SortInto(tbl, i + 1, [buf EXCEPT ![tbl[i].ID] = tbl[i]])

\* Second loop: entry i is copied back before its timer is created; when
\* xTimerCreate fails at index k the function returns false with entries
\* 0..k copied (k = NUM_OF_BUTTONS: every timer was created).
CopyBack(tbl, buf, k) == [i \in Buttons |-> IF i <= k THEN buf[i] ELSE tbl[i]]

\* A mutant of init_BSP_button_module without the already-initialized guard.
init_BSP_button_module_always ==
  /\ IF ~ConfigValid(table)
       THEN /\ last' = Rec("init_module", 0, "BSP_BUTTON_INVALID_BUTTONS_CONFIG_ERR", 0)
            /\ UNCHANGED <<button_module_was_initialized, table>>
       ELSE \E k \in 0 .. NUM_OF_BUTTONS :
              /\ table' = CopyBack(table, SortInto(table, 0, [i \in Buttons |-> ZeroDescriptor]), k)
              /\ IF k < NUM_OF_BUTTONS
                   THEN /\ last' = Rec("init_module", 0, "BSP_BUTTON_INVALID_BUTTONS_CONFIG_ERR", 0)
                        /\ button_module_was_initialized' = FALSE
                   ELSE \E r \in {"BSP_BUTTON_OK", "BSP_BUTTON_INIT_ERR"} :
                          /\ last' = Rec("init_module", 0, r, 0)
                          /\ button_module_was_initialized' = (r = "BSP_BUTTON_OK")
  /\ UNCHANGED <<was_initialized, state, debounce_timer_expired,
                 num_of_presses, timer, isr_arg, intr_enabled, level,
                 cb_calls, registered_once, deregistered>>

\* init_BSP_button_module: check_configurations_sort_and_init (a failing
\* xTimerCreate makes it return false), then gpio_install_isr_service,
\* which may fail with BSP_BUTTON_INIT_ERR.
init_BSP_button_module ==
  /\ IF button_module_was_initialized
       THEN /\ last' = Rec("init_module", 0, "BSP_BUTTON_OK", 0)
            /\ UNCHANGED <<button_module_was_initialized, table>>
       ELSE IF ~ConfigValid(table)
       THEN /\ last' = Rec("init_module", 0, "BSP_BUTTON_INVALID_BUTTONS_CONFIG_ERR", 0)
            /\ UNCHANGED <<button_module_was_initialized, table>>
       ELSE \E k \in 0 .. NUM_OF_BUTTONS :
              /\ table' = CopyBack(table, SortInto(table, 0, [i \in Buttons |-> ZeroDescriptor]), k)
              /\ IF k < NUM_OF_BUTTONS
                   THEN /\ last' = Rec("init_module", 0, "BSP_BUTTON_INVALID_BUTTONS_CONFIG_ERR", 0)
                        /\ button_module_was_initialized' = FALSE
                   ELSE \E r \in {"BSP_BUTTON_OK", "BSP_BUTTON_INIT_ERR"} :
                          /\ last' = Rec("init_module", 0, r, 0)
                          /\ button_module_was_initialized' = (r = "BSP_BUTTON_OK")
  /\ UNCHANGED <<was_initialized, state, debounce_timer_expired,
                 num_of_presses, timer, isr_arg, intr_enabled, level,
                 cb_calls, registered_once, deregistered>>

\* init_button returning ret before any GPIO call
init_button_reject(ID, ret) ==
  /\ last' = Rec("register", ID, ret, 0)
  /\ UNCHANGED <<was_initialized, debounce_timer_expired, isr_arg,
                 intr_enabled, registered_once, deregistered>>

\* A mutant of init_button_gpio_fail for code that sets was_initialized
\* before the GPIO calls.
init_button_gpio_fail_flag_set(ID) ==
  /\ last' = Rec("register", ID, "BSP_BUTTON_INIT_ERR", 0)
  /\ \E e \in {intr_enabled[table[ID].GPIO], FALSE,
                IntrTypeEnables(table[ID].interruption_type)} :
       intr_enabled' = [intr_enabled EXCEPT ![table[ID].GPIO] = e]
  /\ was_initialized' = [was_initialized EXCEPT ![ID] = TRUE]
  /\ UNCHANGED <<debounce_timer_expired, isr_arg, registered_once, deregistered>>

\* init_button when one of gpio_reset_pin, gpio_set_direction,
\* gpio_set_pull_mode, gpio_set_intr_type, gpio_isr_handler_add fails:
\* BSP_BUTTON_INIT_ERR. Before gpio_reset_pin nothing changed; it disables
\* the pin interrupt; gpio_set_intr_type with the descriptor's type may
\* have re-enabled it; no handler is added.
init_button_gpio_fail(ID) ==
  /\ last' = Rec("register", ID, "BSP_BUTTON_INIT_ERR", 0)
  /\ \E e \in {intr_enabled[table[ID].GPIO], FALSE,
                IntrTypeEnables(table[ID].interruption_type)} :
       intr_enabled' = [intr_enabled EXCEPT ![table[ID].GPIO] = e]
  /\ UNCHANGED <<was_initialized, debounce_timer_expired, isr_arg,
                 registered_once, deregistered>>

\* init_button when every GPIO call succeeds: the pin gets the descriptor's
\* interruption_type, the ISR is installed on the pin with argument
\* &system_buttons_infos[ID].ID, then lines 199-200.
init_button_success(ID) ==
  /\ last' = Rec("register", ID, "BSP_BUTTON_OK", 0)
  /\ was_initialized' = [was_initialized EXCEPT ![ID] = TRUE]
  /\ debounce_timer_expired' = [debounce_timer_expired EXCEPT ![ID] = TRUE]
  /\ isr_arg' = [isr_arg EXCEPT ![table[ID].GPIO] = ID]
  /\ intr_enabled' = [intr_enabled EXCEPT ![table[ID].GPIO] =
                        IntrTypeEnables(table[ID].interruption_type)]
  /\ registered_once' = [registered_once EXCEPT ![ID] = TRUE]
  /\ deregistered' = [deregistered EXCEPT ![ID] = FALSE]

\* A mutant of init_button without the was_initialized check.
init_button_no_reinit_check(ID) ==
  /\ CASE ~button_module_was_initialized ->
            init_button_reject(ID, "BSP_BUTTON_MODULE_WAS_NOT_INIT_ERR")
       [] ~check_button_ID(ID) ->
            init_button_reject(ID, "BSP_BUTTON_DOES_NOT_EXIST_ERR")
       [] OTHER -> init_button_gpio_fail(ID) \/ init_button_success(ID)
  /\ UNCHANGED <<button_module_was_initialized, table, state, num_of_presses,
                 timer, level, cb_calls>>

\* A mutant of init_button without CHECK_IF_MODULE_WAS_INTIALIZED.
init_button_no_module_check(ID) ==
  /\ CASE ~check_button_ID(ID) ->
            init_button_reject(ID, "BSP_BUTTON_DOES_NOT_EXIST_ERR")
       [] was_initialized[ID] ->
            init_button_reject(ID, "BSP_BUTTON_WAS_INITIALIZED_ERR")
       [] OTHER -> init_button_gpio_fail(ID) \/ init_button_success(ID)
  /\ UNCHANGED <<button_module_was_initialized, table, state, num_of_presses,
                 timer, level, cb_calls>>

\* init_button
init_button(ID) ==
  /\ CASE ~button_module_was_initialized ->
            init_button_reject(ID, "BSP_BUTTON_MODULE_WAS_NOT_INIT_ERR")
       [] ~check_button_ID(ID) ->
            init_button_reject(ID, "BSP_BUTTON_DOES_NOT_EXIST_ERR")
       [] was_initialized[ID] ->
            init_button_reject(ID, "BSP_BUTTON_WAS_INITIALIZED_ERR")
       [] OTHER -> init_button_gpio_fail(ID) \/ init_button_success(ID)
  /\ UNCHANGED <<button_module_was_initialized, table, state, num_of_presses,
                 timer, level, cb_calls>>

\* A mutant of de_init_button that also clears the press counter.
de_init_button_reset_count(ID) ==
  /\ CASE ~button_module_was_initialized ->
            /\ last' = Rec("deregister", ID, "BSP_BUTTON_MODULE_WAS_NOT_INIT_ERR", 0)
            /\ UNCHANGED <<intr_enabled, num_of_presses, deregistered>>
       [] ~check_button_ID(ID) ->
            /\ last' = Rec("deregister", ID, "BSP_BUTTON_DOES_NOT_EXIST_ERR", 0)
            /\ UNCHANGED <<intr_enabled, num_of_presses, deregistered>>
       [] ~was_initialized[ID] ->
            /\ last' = Rec("deregister", ID, "BSP_BUTTON_WAS_NOT_INITIALIZED_ERR", 0)
            /\ UNCHANGED <<intr_enabled, num_of_presses, deregistered>>
       [] OTHER ->
            \/ /\ last' = Rec("deregister", ID, "BSP_BUTTON_DE_INIT_ERR", 0)
               /\ \E e \in {intr_enabled[table[ID].GPIO], FALSE} :
                    intr_enabled' = [intr_enabled EXCEPT ![table[ID].GPIO] = e]
               /\ UNCHANGED deregistered
               /\ UNCHANGED num_of_presses
            \/ /\ last' = Rec("deregister", ID, "BSP_BUTTON_OK", 0)
               /\ intr_enabled' = [intr_enabled EXCEPT ![table[ID].GPIO] = FALSE]
               /\ deregistered' = [deregistered EXCEPT ![ID] = TRUE]
               /\ num_of_presses' = [num_of_presses EXCEPT ![ID] = 0]
  /\ UNCHANGED <<button_module_was_initialized, table, was_initialized, state,
                 debounce_timer_expired, timer, isr_arg, level,
                 cb_calls, registered_once>>

\* A mutant of de_init_button whose successful path leaves the pin
\* interrupt enabled.
de_init_button_keep_intr(ID) ==
  /\ CASE ~button_module_was_initialized ->
            /\ last' = Rec("deregister", ID, "BSP_BUTTON_MODULE_WAS_NOT_INIT_ERR", 0)
            /\ UNCHANGED <<intr_enabled, deregistered>>
       [] ~check_button_ID(ID) ->
            /\ last' = Rec("deregister", ID, "BSP_BUTTON_DOES_NOT_EXIST_ERR", 0)
            /\ UNCHANGED <<intr_enabled, deregistered>>
       [] ~was_initialized[ID] ->
            /\ last' = Rec("deregister", ID, "BSP_BUTTON_WAS_NOT_INITIALIZED_ERR", 0)
            /\ UNCHANGED <<intr_enabled, deregistered>>
       [] OTHER ->
            \/ /\ last' = Rec("deregister", ID, "BSP_BUTTON_DE_INIT_ERR", 0)
               /\ UNCHANGED <<intr_enabled, deregistered>>
            \/ /\ last' = Rec("deregister", ID, "BSP_BUTTON_OK", 0)
               /\ UNCHANGED intr_enabled
               /\ deregistered' = [deregistered EXCEPT ![ID] = TRUE]
  /\ UNCHANGED <<button_module_was_initialized, table, was_initialized, state,
                 debounce_timer_expired, num_of_presses, timer, isr_arg, level,
                 cb_calls, registered_once>>

\* de_init_button: gpio_reset_pin (which disables the pin interrupt) then
\* gpio_set_intr_type(GPIO_INTR_DISABLE); either may fail with
\* BSP_BUTTON_DE_INIT_ERR. The ISR stays installed, was_initialized is left
\* as it is and the debounce timer is not stopped.
de_init_button(ID) ==
  /\ CASE ~button_module_was_initialized ->
            /\ last' = Rec("deregister", ID, "BSP_BUTTON_MODULE_WAS_NOT_INIT_ERR", 0)
            /\ UNCHANGED <<intr_enabled, deregistered>>
       [] ~check_button_ID(ID) ->
            /\ last' = Rec("deregister", ID, "BSP_BUTTON_DOES_NOT_EXIST_ERR", 0)
            /\ UNCHANGED <<intr_enabled, deregistered>>
       [] ~was_initialized[ID] ->
            /\ last' = Rec("deregister", ID, "BSP_BUTTON_WAS_NOT_INITIALIZED_ERR", 0)
            /\ UNCHANGED <<intr_enabled, deregistered>>
       [] OTHER ->
            \/ /\ last' = Rec("deregister", ID, "BSP_BUTTON_DE_INIT_ERR", 0)
               /\ \E e \in {intr_enabled[table[ID].GPIO], FALSE} :
                    intr_enabled' = [intr_enabled EXCEPT ![table[ID].GPIO] = e]
               /\ UNCHANGED deregistered
            \/ /\ last' = Rec("deregister", ID, "BSP_BUTTON_OK", 0)
               /\ intr_enabled' = [intr_enabled EXCEPT ![table[ID].GPIO] = FALSE]
               /\ deregistered' = [deregistered EXCEPT ![ID] = TRUE]
  /\ UNCHANGED <<button_module_was_initialized, table, was_initialized, state,
                 debounce_timer_expired, num_of_presses, timer, isr_arg, level,
                 cb_calls, registered_once>>

\* Variables that the accessors leave alone
accessor_frame ==
  UNCHANGED <<button_module_was_initialized, table, was_initialized, state,
              debounce_timer_expired, num_of_presses, timer, isr_arg,
              intr_enabled, level, cb_calls, registered_once, deregistered>>

\* read_button_state
read_button_state(ID) ==
  /\ last' = CASE ~button_module_was_initialized ->
                    Rec("read_state", ID, "BSP_BUTTON_MODULE_WAS_NOT_INIT_ERR", 0)
               [] ~check_button_ID(ID) ->
                    Rec("read_state", ID, "BSP_BUTTON_DOES_NOT_EXIST_ERR", 0)
               [] ~was_initialized[ID] ->
                    Rec("read_state", ID, "BSP_BUTTON_WAS_NOT_INITIALIZED_ERR", 0)
               [] OTHER ->
                    Rec("read_state", ID, "BSP_BUTTON_OK", state[ID])
  /\ accessor_frame

\* A mutant of get_num_of_presses that skips the identifier check.
get_num_of_presses_noid(ID) ==
  /\ last' = CASE ~button_module_was_initialized ->
                    Rec("get_presses", ID, "BSP_BUTTON_MODULE_WAS_NOT_INIT_ERR", 0)
               [] ~check_button_ID(ID) ->
                    Rec("get_presses", ID, "BSP_BUTTON_OK", 0)
               [] OTHER ->
                    Rec("get_presses", ID, "BSP_BUTTON_OK", num_of_presses[ID])
  /\ accessor_frame

\* A mutant of get_num_of_presses that requires an initialized button.
get_num_of_presses_initonly(ID) ==
  /\ last' = CASE ~button_module_was_initialized ->
                    Rec("get_presses", ID, "BSP_BUTTON_MODULE_WAS_NOT_INIT_ERR", 0)
               [] ~check_button_ID(ID) ->
                    Rec("get_presses", ID, "BSP_BUTTON_DOES_NOT_EXIST_ERR", 0)
               [] ~was_initialized[ID] ->
                    Rec("get_presses", ID, "BSP_BUTTON_WAS_NOT_INITIALIZED_ERR", 0)
               [] OTHER ->
                    Rec("get_presses", ID, "BSP_BUTTON_OK", num_of_presses[ID])
  /\ accessor_frame

\* get_num_of_presses: no was_initialized check
get_num_of_presses(ID) ==
  /\ last' = CASE ~button_module_was_initialized ->
                    Rec("get_presses", ID, "BSP_BUTTON_MODULE_WAS_NOT_INIT_ERR", 0)
               [] ~check_button_ID(ID) ->
                    Rec("get_presses", ID, "BSP_BUTTON_DOES_NOT_EXIST_ERR", 0)
               [] OTHER ->
                    Rec("get_presses", ID, "BSP_BUTTON_OK", num_of_presses[ID])
  /\ accessor_frame

\* The edge interrupt of pin g: the GPIO ISR service calls generic_button_CB
\* with the argument installed on the pin, &system_buttons_infos[r].ID.
\* xTimerIsTimerActive is pdFALSE unless the timer is in the active list;
\* xTimerStartFromISR queues a start command.
\* A mutant of generic_button_CB whose anti-bouncing guard only looks at
\* the timer.
generic_button_CB_timeronly(g) ==
  /\ intr_enabled[g] /\ isr_arg[g] # NoArg
  /\ LET r == isr_arg[g]
         ID == table[r].ID
     IN /\ num_of_presses[ID] < MaxPresses
        /\ IF timer[ID] # "active"
             THEN /\ debounce_timer_expired' = [debounce_timer_expired EXCEPT ![ID] = FALSE]
                  /\ state' = [state EXCEPT ![ID] = level[table[ID].GPIO]]
                  /\ num_of_presses' = [num_of_presses EXCEPT ![ID] = @ + 1]
                  /\ cb_calls' = [cb_calls EXCEPT ![ID] = @ + 1]
                  /\ timer' = [timer EXCEPT ![ID] = "queued"]
                  /\ last' = Rec("edge", r, "accepted", ID)
             ELSE /\ last' = Rec("edge", r, "ignored", ID)
                  /\ UNCHANGED <<debounce_timer_expired, state, num_of_presses,
                                 cb_calls, timer>>
  /\ UNCHANGED <<button_module_was_initialized, table, was_initialized,
                 isr_arg, intr_enabled, level, registered_once, deregistered>>

\* generic_button_CB, run by the edge interrupt of pin g
generic_button_CB(g) ==
  /\ intr_enabled[g] /\ isr_arg[g] # NoArg
  /\ LET r == isr_arg[g]
         ID == table[r].ID
     IN /\ num_of_presses[ID] < MaxPresses
        /\ IF timer[ID] # "active" /\ debounce_timer_expired[ID]
             THEN /\ debounce_timer_expired' = [debounce_timer_expired EXCEPT ![ID] = FALSE]
                  /\ state' = [state EXCEPT ![ID] = level[table[ID].GPIO]]
                  /\ num_of_presses' = [num_of_presses EXCEPT ![ID] = @ + 1]
                  /\ cb_calls' = [cb_calls EXCEPT ![ID] = @ + 1]
                  /\ timer' = [timer EXCEPT ![ID] = "queued"]
                  /\ last' = Rec("edge", r, "accepted", ID)
             ELSE /\ last' = Rec("edge", r, "ignored", ID)
                  /\ UNCHANGED <<debounce_timer_expired, state, num_of_presses,
                                 cb_calls, timer>>
  /\ UNCHANGED <<button_module_was_initialized, table, was_initialized,
                 isr_arg, intr_enabled, level, registered_once, deregistered>>

\* The timer service task processes a queued start command.
timer_start_processed(ID) ==
  /\ timer[ID] = "queued"
  /\ timer' = [timer EXCEPT ![ID] = "active"]
  /\ last' = Rec("timer_service", ID, "none", 0)
  /\ UNCHANGED <<button_module_was_initialized, table, was_initialized, state,
                 debounce_timer_expired, num_of_presses, isr_arg, intr_enabled,
                 level, cb_calls, registered_once, deregistered>>

\* Variables that timer_CB leaves alone
timer_CB_frame ==
  UNCHANGED <<button_module_was_initialized, table, was_initialized,
              num_of_presses, isr_arg, intr_enabled, level, cb_calls,
              registered_once, deregistered>>

\* A mutant of timer_CB that also marks the timer expired when re-arming.
timer_CB_rearm_expires(ID) ==
  /\ timer[ID] = "active"
  /\ IF level[table[ID].GPIO] = BUTTON_IS_PRESSED
       THEN /\ timer' = [timer EXCEPT ![ID] = "queued"]
            /\ debounce_timer_expired' = [debounce_timer_expired EXCEPT ![ID] = TRUE]
            /\ last' = Rec("timer_CB", ID, "pressed", 0)
       ELSE /\ timer' = [timer EXCEPT ![ID] = "dormant"]
            /\ debounce_timer_expired' = [debounce_timer_expired EXCEPT ![ID] = TRUE]
            /\ last' = Rec("timer_CB", ID, "released", 0)
  /\ UNCHANGED state
  /\ timer_CB_frame

\* A mutant of timer_CB that never marks the timer expired.
timer_CB_never_expires(ID) ==
  /\ timer[ID] = "active"
  /\ IF level[table[ID].GPIO] = BUTTON_IS_PRESSED
       THEN /\ timer' = [timer EXCEPT ![ID] = "queued"]
            /\ last' = Rec("timer_CB", ID, "pressed", 0)
       ELSE /\ timer' = [timer EXCEPT ![ID] = "dormant"]
            /\ last' = Rec("timer_CB", ID, "released", 0)
  /\ UNCHANGED <<state, debounce_timer_expired>>
  /\ timer_CB_frame

\* A mutant of timer_CB that stores the sampled level as the button state.
timer_CB_samples_state(ID) ==
  /\ timer[ID] = "active"
  /\ state' = [state EXCEPT ![ID] = level[table[ID].GPIO]]
  /\ IF level[table[ID].GPIO] = BUTTON_IS_PRESSED
       THEN /\ timer' = [timer EXCEPT ![ID] = "queued"]
            /\ last' = Rec("timer_CB", ID, "pressed", 0)
            /\ UNCHANGED debounce_timer_expired
       ELSE /\ timer' = [timer EXCEPT ![ID] = "dormant"]
            /\ debounce_timer_expired' = [debounce_timer_expired EXCEPT ![ID] = TRUE]
            /\ last' = Rec("timer_CB", ID, "released", 0)
  /\ timer_CB_frame

\* A mutant of timer_CB whose timer-name lookup matches no button and keeps
\* the default ID 0.
timer_CB_default_id(ID) ==
  /\ timer[ID] = "active"
  /\ IF level[table[0].GPIO] = BUTTON_IS_PRESSED
       THEN /\ timer' = [timer EXCEPT ![ID] = "queued"]
            /\ last' = Rec("timer_CB", ID, "pressed", 0)
            /\ UNCHANGED debounce_timer_expired
       ELSE /\ timer' = [timer EXCEPT ![ID] = "dormant"]
            /\ debounce_timer_expired' = [debounce_timer_expired EXCEPT ![0] = TRUE]
            /\ last' = Rec("timer_CB", ID, "released", 0)
  /\ UNCHANGED state
  /\ timer_CB_frame

\* timer_CB: the one-shot timer of button ID expires (it leaves the active
\* list before its callback runs). The callback finds ID by the timer name,
\* samples the button GPIO and either re-arms the timer or marks it expired.
timer_CB(ID) ==
  /\ timer[ID] = "active"
  /\ IF level[table[ID].GPIO] = BUTTON_IS_PRESSED
       THEN /\ timer' = [timer EXCEPT ![ID] = "queued"]
            /\ last' = Rec("timer_CB", ID, "pressed", 0)
            /\ UNCHANGED debounce_timer_expired
       ELSE /\ timer' = [timer EXCEPT ![ID] = "dormant"]
            /\ debounce_timer_expired' = [debounce_timer_expired EXCEPT ![ID] = TRUE]
            /\ last' = Rec("timer_CB", ID, "released", 0)
  /\ UNCHANGED state
  /\ timer_CB_frame

\* The environment changes the electrical level of a pin used by a button.
pin_change(g) ==
  /\ \E i \in Buttons : table[i].GPIO = g
  /\ level' = [level EXCEPT ![g] = 1 - @]
  /\ last' = Rec("pin", g, "none", 0)
  /\ UNCHANGED <<button_module_was_initialized, table, was_initialized, state,
                 debounce_timer_expired, num_of_presses, timer, isr_arg,
                 intr_enabled, cb_calls, registered_once, deregistered>>

Next ==
  \/ init_BSP_button_module
  \/ \E id \in AllIDs : init_button(id)
  \/ \E id \in AllIDs : de_init_button(id)
  \/ \E id \in AllIDs : read_button_state(id)
  \/ \E id \in AllIDs : get_num_of_presses(id)
  \/ \E g \in GPIOs : generic_button_CB(g)
  \/ \E b \in Buttons : timer_start_processed(b)
  \/ \E b \in Buttons : timer_CB(b)
  \/ \E g \in GPIOs : pin_change(g)

Spec == Init /\ [][Next]_vars

AcceptedEdge(b) == last'.op = "edge" /\ last'.val = b /\ last'.ret = "accepted"
IgnoredEdge(b) == last'.op = "edge" /\ last'.val = b /\ last'.ret = "ignored"

\* C1: the press counter and the callback count of a button change only by
\* an accepted edge (Quiescent -> Debouncing), which raises each by exactly
\* one; an edge while Debouncing changes neither the counters nor the
\* stored state nor the phase.
C1_Counting ==
  [][\A b \in Buttons :
       /\ (num_of_presses'[b] # num_of_presses[b] \/ cb_calls'[b] # cb_calls[b])
            => AcceptedEdge(b)
       /\ AcceptedEdge(b) =>
            /\ timer[b] # "active" /\ debounce_timer_expired[b]
            /\ num_of_presses'[b] = num_of_presses[b] + 1
            /\ cb_calls'[b] = cb_calls[b] + 1
            /\ ~debounce_timer_expired'[b]
       /\ IgnoredEdge(b) =>
            /\ UNCHANGED <<num_of_presses, cb_calls, state,
                           debounce_timer_expired, timer>>]_vars

\* C1 witness: an edge is ignored while the button is Debouncing after a press.
C1_Witness ==
  \E b \in Buttons : last.op = "edge" /\ last.val = b /\ last.ret = "ignored"
                     /\ num_of_presses[b] = 1 /\ ~debounce_timer_expired[b]

\* C2: a settle check that samples the pressed level re-arms the timer,
\* keeps the button Debouncing and changes no counter.
C2_Rearm ==
  [][\A b \in Buttons :
       (last'.op = "timer_CB" /\ last'.id = b /\ level[table[b].GPIO] = BUTTON_IS_PRESSED) =>
         /\ last'.ret = "pressed"
         /\ timer'[b] = "queued"
         /\ ~debounce_timer_expired'[b]
         /\ UNCHANGED <<num_of_presses, cb_calls>>]_vars

\* C2 witness: a settle check has just re-armed the timer after a press.
C2_Witness ==
  \E b \in Buttons : last.op = "timer_CB" /\ last.id = b /\ last.ret = "pressed"
                     /\ num_of_presses[b] >= 1

\* C3: a settle check that samples the released level returns the button to
\* Quiescent; the button stays Quiescent until its next edge, and that edge
\* is accepted as a new press (counter and callback count + 1).
C3_ReleaseThenAccept ==
  [][\A b \in Buttons :
       /\ (last'.op = "timer_CB" /\ last'.id = b /\ last'.ret = "released") =>
            debounce_timer_expired'[b] /\ timer'[b] = "dormant"
       /\ (debounce_timer_expired[b] /\ ~(last'.op = "edge" /\ last'.val = b)) =>
            debounce_timer_expired'[b]
       /\ (debounce_timer_expired[b] /\ last'.op = "edge" /\ last'.val = b) =>
            /\ last'.ret = "accepted"
            /\ num_of_presses'[b] = num_of_presses[b] + 1
            /\ cb_calls'[b] = cb_calls[b] + 1]_vars

\* C3 witness: a second press was accepted after a release.
C3_Witness ==
  \E b \in Buttons : last.op = "edge" /\ last.val = b /\ last.ret = "accepted"
                     /\ num_of_presses[b] = 2


APIOps == {"register", "deregister", "read_state", "get_presses"}

\* C4 (scenario): after an accepted edge, bouncing edges and a settle check
\* that reads the released level, read_state returns not-pressed with one
\* counted press, and a second accepted press makes the count 2.
C4_Scenario ==
  [][\A b \in Buttons :
       /\ (last'.op = "read_state" /\ last'.id = b /\ last'.ret = "BSP_BUTTON_OK"
           /\ debounce_timer_expired[b] /\ num_of_presses[b] = 1) =>
            last'.val = BUTTON_IS_NOT_PRESSED
       /\ (debounce_timer_expired[b] /\ num_of_presses[b] = 1
           /\ last'.op = "edge" /\ last'.val = b) =>
            num_of_presses'[b] = 2]_vars

\* C5: a register_button(id) right after a successful register_button(id)
\* returns ButtonAlreadyInitialized and leaves the registry unchanged.
C5_DoubleRegister ==
  [][(last.op = "register" /\ last.ret = "BSP_BUTTON_OK"
      /\ last'.op = "register" /\ last'.id = last.id) =>
       /\ last'.ret = "BSP_BUTTON_WAS_INITIALIZED_ERR"
       /\ UNCHANGED <<core, registered_once, button_module_was_initialized,
                      table, isr_arg, intr_enabled>>]_vars

\* C5 witness: a second registration was rejected on a freshly registered
\* button.
C5_Witness ==
  \E b \in Buttons : last.op = "register" /\ last.id = b
                     /\ last.ret = "BSP_BUTTON_WAS_INITIALIZED_ERR"
                     /\ debounce_timer_expired[b] /\ timer[b] = "dormant"
                     /\ num_of_presses[b] = 0

\* C6: after a successful deregister_button(id), register_button(id) does
\* not return ButtonAlreadyInitialized.
C6_ReRegister ==
  [][(last.op = "deregister" /\ last.ret = "BSP_BUTTON_OK"
      /\ last'.op = "register" /\ last'.id = last.id) =>
       last'.ret # "BSP_BUTTON_WAS_INITIALIZED_ERR"]_vars

\* C7: after a successful deregister_button(id), read_state(id) returns
\* ButtonNotInitialized.
C7_ReadAfterDeregister ==
  [][(last.op = "deregister" /\ last.ret = "BSP_BUTTON_OK"
      /\ last'.op = "read_state" /\ last'.id = last.id) =>
       last'.ret = "BSP_BUTTON_WAS_NOT_INITIALIZED_ERR"]_vars

\* C8: before initialize_module has succeeded, register, deregister,
\* read_state and get_press_count return ModuleNotInitialized for any id
\* and change no state.
C8_ModuleNotInit ==
  [][(~button_module_was_initialized /\ last'.op \in APIOps) =>
       /\ last'.ret = "BSP_BUTTON_MODULE_WAS_NOT_INIT_ERR"
       /\ UNCHANGED <<core, registered_once, button_module_was_initialized,
                      table, isr_arg, intr_enabled>>]_vars

\* C8 witness: a registration of a valid id was refused before the module
\* was initialized.
C8_Witness ==
  /\ ~button_module_was_initialized
  /\ last.op = "register" /\ last.id \in Buttons
  /\ last.ret = "BSP_BUTTON_MODULE_WAS_NOT_INIT_ERR"

\* C9 (as stated): every operation on an id outside the enumeration returns
\* ButtonDoesNotExist, in every reachable state.
C9_InvalidIdAlways ==
  [][(last'.op \in APIOps /\ last'.id \notin Buttons) =>
       last'.ret = "BSP_BUTTON_DOES_NOT_EXIST_ERR"]_vars

\* C9 (amended): once initialize_module has succeeded, every operation on an
\* id outside the enumeration returns ButtonDoesNotExist and changes no state.
C9_InvalidIdAfterInit ==
  [][(button_module_was_initialized /\ last'.op \in APIOps
      /\ last'.id \notin Buttons) =>
       /\ last'.ret = "BSP_BUTTON_DOES_NOT_EXIST_ERR"
       /\ UNCHANGED <<core, registered_once, isr_arg, intr_enabled>>]_vars

\* C9 witness: get_press_count on an id outside the enumeration after the
\* module was initialized.
C9_Witness ==
  /\ button_module_was_initialized
  /\ last.op = "get_presses" /\ last.id \notin Buttons
  /\ last.ret = "BSP_BUTTON_DOES_NOT_EXIST_ERR"

\* C10: after the module is initialized, on a valid id never registered,
\* get_press_count returns OK with 0 and read_state returns
\* ButtonNotInitialized.
C10_NeverRegistered ==
  [][\A b \in Buttons :
       (button_module_was_initialized /\ ~registered_once[b]) =>
         /\ (last'.op = "get_presses" /\ last'.id = b) =>
              last'.ret = "BSP_BUTTON_OK" /\ last'.val = 0
         /\ (last'.op = "read_state" /\ last'.id = b) =>
              last'.ret = "BSP_BUTTON_WAS_NOT_INITIALIZED_ERR"]_vars

\* C10 witness: get_press_count succeeded on a never-registered button.
C10_Witness ==
  \E b \in Buttons : button_module_was_initialized /\ ~registered_once[b]
                     /\ last.op = "get_presses" /\ last.id = b
                     /\ last.ret = "BSP_BUTTON_OK"


\* C11: once initialize_module has returned OK, every later call returns OK
\* and changes no state.
C11_InitIdempotent ==
  [][(button_module_was_initialized /\ last'.op = "init_module") =>
       /\ last'.ret = "BSP_BUTTON_OK"
       /\ UNCHANGED <<core, button_module_was_initialized, table, isr_arg,
                      intr_enabled, registered_once, deregistered>>]_vars

\* C11 witness: initialize_module called again after a button was registered.
C11_Witness ==
  /\ button_module_was_initialized
  /\ last.op = "init_module" /\ last.ret = "BSP_BUTTON_OK"
  /\ \E b \in Buttons : registered_once[b]


\* C12: initialize_module returns OK only with a table of unique identifiers
\* of the enumeration, and after it succeeds every entry i holds the
\* descriptor declared for identifier i (no zeroed or duplicated entry).
C12_SortedTable ==
  button_module_was_initialized =>
    \A i \in Buttons : table[i].ID = i /\ table[i] = DeclaredDescriptor(i)


\* C13: after a successful deregister_button(id) and until id is registered
\* again, no step increments id's press counter or invokes its press
\* callback, also when its debounce timer is still in flight.
C13_NoPressAfterDeregister ==
  [][\A b \in Buttons :
       (deregistered[b]
        /\ ~(last'.op = "register" /\ last'.id = b /\ last'.ret = "BSP_BUTTON_OK")) =>
         /\ num_of_presses'[b] = num_of_presses[b]
         /\ cb_calls'[b] = cb_calls[b]]_vars


\* C14: when register_button(id) fails because a GPIO call fails it returns
\* InitializationFailed, id stays not initialized and its core state and
\* phase are unchanged, so a later register_button(id) can succeed.
C14_RegisterFailureNoEffect ==
  [][\A b \in Buttons :
       (last'.op = "register" /\ last'.id = b /\ last'.ret = "BSP_BUTTON_INIT_ERR") =>
         /\ ~was_initialized'[b]
         /\ UNCHANGED <<core, isr_arg, registered_once>>
         /\ button_module_was_initialized']_vars

\* C14 witness: a registration failed in the GPIO driver after the module was
\* initialized.
C14_Witness ==
  \E b \in Buttons : button_module_was_initialized
                     /\ last.op = "register" /\ last.id = b
                     /\ last.ret = "BSP_BUTTON_INIT_ERR"


\* The FreeRTOS timer service task processes queued commands and runs the
\* callbacks of expired timers.
FairSpec ==
  /\ Spec
  /\ \A b \in Buttons : WF_vars(timer_start_processed(b)) /\ WF_vars(timer_CB(b))

\* C15: if the pin of a button eventually stays at the released level, a
\* button left Debouncing by an accepted edge eventually returns to
\* Quiescent (debounce_timer_expired = TRUE) and can accept a new press.
C15_EventuallyQuiescent ==
  \A b \in Buttons :
    (<>[](level[table[b].GPIO] # BUTTON_IS_PRESSED)) =>
      ((registered_once[b] /\ ~debounce_timer_expired[b]) ~> debounce_timer_expired[b])

\* C15 witness: a button back to Quiescent after a press.
C15_Witness ==
  \E b \in Buttons : registered_once[b] /\ debounce_timer_expired[b]
                     /\ num_of_presses[b] >= 1 /\ timer[b] = "dormant"


\* C16: the phase is a mutual-exclusion gate. In every reachable state
\* debounce_timer_expired = TRUE implies that the debounce timer is neither
\* running nor has a start pending; the settle check only runs while the
\* button is Debouncing, and an accepted edge only happens while Quiescent.
C16_PhaseGate ==
  /\ [](\A b \in Buttons : debounce_timer_expired[b] => timer[b] = "dormant")
  /\ [][\A b \in Buttons :
          /\ (last'.op = "timer_CB" /\ last'.id = b) => ~debounce_timer_expired[b]
          /\ AcceptedEdge(b) => debounce_timer_expired[b]]_vars

\* C16 witness: a settle check has just made the button Quiescent.
C16_Witness ==
  \E b \in Buttons : last.op = "timer_CB" /\ last.id = b /\ last.ret = "released"
                     /\ debounce_timer_expired[b]


\* C17: buttons are independent. An edge interrupt of button a's pin, a
\* settle check of a's timer, or register/deregister of a leaves every other
\* button's state, phase, press counter and initialization flag unchanged.
C17_Independence ==
  [][\A a, b \in Buttons :
       (a # b /\ last'.id = a
        /\ last'.op \in {"edge", "timer_CB", "register", "deregister"}) =>
         /\ state'[b] = state[b]
         /\ debounce_timer_expired'[b] = debounce_timer_expired[b]
         /\ num_of_presses'[b] = num_of_presses[b]
         /\ was_initialized'[b] = was_initialized[b]]_vars


\* C18: a button's press counter never decreases.
C18_CounterMonotone ==
  [][\A b \in Buttons : num_of_presses'[b] >= num_of_presses[b]]_vars

\* C18 witness: a pressed button was de-registered.
C18_Witness ==
  \E b \in Buttons : deregistered[b] /\ num_of_presses[b] >= 1
                     /\ last.op = "deregister" /\ last.id = b

\* C19: the settle check changes only the phase (and the timer): a
\* Debouncing -> Quiescent transition and a re-arm leave the stored state,
\* the press counter and the callback count unchanged.
C19_SettleFrame ==
  [][\A b \in Buttons :
       (last'.op = "timer_CB" /\ last'.id = b) =>
         UNCHANGED <<state, num_of_presses, cb_calls, was_initialized>>]_vars

\* C19 witness: a settle check read the released level while the stored
\* state is the pressed level sampled at the edge.
C19_Witness ==
  \E b \in Buttons : last.op = "timer_CB" /\ last.id = b /\ last.ret = "released"
                     /\ state[b] = BUTTON_IS_PRESSED


\* C13 witness: a pressed button was de-registered while its debounce timer
\* is still in flight.
C13_Witness ==
  \E b \in Buttons : deregistered[b] /\ num_of_presses[b] >= 1
                     /\ timer[b] # "dormant"

\* C17 witness: an accepted edge of one button while another button is
\* registered and Debouncing.
C17_Witness ==
  \E a, b \in Buttons : a # b /\ last.op = "edge" /\ last.id = a
                        /\ last.ret = "accepted"
                        /\ was_initialized[b] /\ ~debounce_timer_expired[b]

====
